---- MODULE Spec2Model ----
(***************************************************************************)
(* Model of the symbolic-regression engine of Shark-Core:                  *)
(*   crates/predict/src/bin/e11_1_benchmark.rs  (evolve_on, LossCounter)   *)
(*   crates/predict/src/scientist.rs            (evolve_symbolic)          *)
(*                                                                         *)
(* Numbers.  f64 is modelled on the integer grid -MaxVal..MaxVal with the  *)
(* three IEEE specials +inf, -inf and NaN; arithmetic that leaves the grid *)
(* overflows to an infinity, inf-inf and 0*inf are NaN, NaN propagates and *)
(* every ordered comparison with NaN is false.  sin, cos and exp are the   *)
(* real functions rounded to the grid.  Fitness values are kept in units   *)
(* of alpha = 0.01 (AlphaInv units per 1.0) so that the size penalty       *)
(* alpha * node_count is exact.                                            *)
(*                                                                         *)
(* Randomness.  ChaCha8Rng is a deterministic generator: the stream is a   *)
(* function of the seed.  It is modelled by a multiplicative congruential  *)
(* generator; every gen_bool / gen_range call advances it by one step.     *)
(*                                                                         *)
(* Evaluation.  Only(S) is the element of a one-element set; it is used as *)
(* Only({body : x \in {e}}) to name the VALUE of e by x, so that e is      *)
(* computed once however often body uses it.  Then(m, F) is the same for a *)
(* result m = [v, r] of a drawing operator followed by F.                  *)
(***************************************************************************)
EXTENDS Integers, Sequences, FiniteSets, TLC

(***************************************************************************)
(* Bounds of the model                                                     *)
(***************************************************************************)
MaxVal == 2000000
MaxSeed == 2
MaxBudget == 5
MaxPop == 3
MaxThreads == 2
MaxGen == 2
GridHalf == 1

Only(S) == CHOOSE x \in S : TRUE
Then(m, F(_)) == Only({F(x) : x \in {m}})

(***************************************************************************)
(* f64                                                                     *)
(***************************************************************************)
PInf == 1000000000
NInf == -PInf
NaN == 2000000000

is_nan(v) == v = NaN
is_finite(v) == v # NaN /\ v # PInf /\ v # NInf
Abs(v) == IF v < 0 THEN -v ELSE v
Sgn(v) == IF v < 0 THEN -1 ELSE IF v > 0 THEN 1 ELSE 0

\* rounding of an exact result to f64: overflow gives an infinity
Sat(v) == IF v > MaxVal THEN PInf ELSE IF v < -MaxVal THEN NInf ELSE v

\* a < b on f64: false when either side is NaN
Lt(a, b) == a # NaN /\ b # NaN /\ a < b

NegV(a0) == Only({IF a = NaN THEN NaN ELSE -a : a \in {a0}})

AddV(a0, b0) ==
    Only({ IF a = NaN \/ b = NaN THEN NaN
           ELSE IF ~is_finite(a) THEN (IF ~is_finite(b) /\ b # a THEN NaN ELSE a)
           ELSE IF ~is_finite(b) THEN b
           ELSE Sat(a + b) : a \in {a0}, b \in {b0} })

SubV(a, b) == AddV(a, NegV(b))

MulV(a0, b0) ==
    Only({ IF a = NaN \/ b = NaN THEN NaN
           ELSE IF ~is_finite(a) \/ ~is_finite(b)
                THEN (IF a = 0 \/ b = 0 THEN NaN
                      ELSE IF Sgn(a) * Sgn(b) > 0 THEN PInf ELSE NInf)
           ELSE IF a = 0 \/ b = 0 THEN 0
           ELSE IF Abs(a) > MaxVal \div Abs(b)
                THEN (IF Sgn(a) * Sgn(b) > 0 THEN PInf ELSE NInf)
           ELSE a * b : a \in {a0}, b \in {b0} })

\* sin and cos rounded to the grid, with period 6 for 2*pi
SinV(a0) ==
    Only({ IF ~is_finite(a) THEN NaN
           ELSE <<0, 1, 1, 0, -1, -1>>[(a % 6) + 1] : a \in {a0} })

CosV(a0) ==
    Only({ IF ~is_finite(a) THEN NaN
           ELSE <<1, 1, 0, -1, -1, 0>>[(a % 6) + 1] : a \in {a0} })

\* exp rounded to the grid; e^15 is beyond MaxVal
ExpV(a0) ==
    Only({ IF a = NaN THEN NaN
           ELSE IF a = PInf THEN PInf
           ELSE IF a < 0 THEN 0
           ELSE IF a > 14 THEN PInf
           ELSE Sat(<<1, 3, 7, 20, 55, 148, 403, 1097, 2981, 8103, 22026,
                      59874, 162755, 442413, 1202604>>[a + 1])
           : a \in {a0} })

\* b^n for a natural n, b a grid value
RECURSIVE IntPow(_, _)
IntPow(b, n) == IF n = 0 THEN 1 ELSE MulV(b, IntPow(b, n - 1))

Isqrt(v) == CHOOSE r \in 0..1415 : r * r <= v /\ v < (r + 1) * (r + 1)

SqrtV(a) ==
    IF a = NaN \/ a < 0 THEN NaN
    ELSE IF a = PInf THEN PInf
    ELSE Isqrt(a)

RecipV(a0) ==
    Only({ IF a = NaN THEN NaN
           ELSE IF a = 0 THEN PInf
           ELSE IF Abs(a) = 1 THEN a
           ELSE 0 : a \in {a0} })

\* base.powf(p) with the exponent p kept in halves (p2 = 2p): an odd p2 is
\* a fractional exponent.  A negative base with a fractional exponent is NaN.
\* b is a grid value (eval hands it a finite base).
RECURSIVE powf(_, _)
powf(b, p2) ==
    IF b = NaN THEN NaN
    ELSE IF p2 = 0 THEN 1
    ELSE IF p2 < 0 THEN RecipV(powf(b, -p2))
    ELSE IF p2 % 2 = 0 THEN IntPow(b, p2 \div 2)
    ELSE IF b < 0 THEN NaN
    ELSE MulV(IntPow(b, p2 \div 2), SqrtV(b))

fract_nonzero(p2) == p2 % 2 # 0

(***************************************************************************)
(* Seeded randomness (ChaCha8Rng).  An rng value is the generator state;   *)
(* each draw returns [v |-> the value drawn, r |-> the state after it].    *)
(***************************************************************************)
RngMod == 1009
RngMul == 11

seed_from_u64(seed) == (seed % (RngMod - 1)) + 1
NextRng(r) == (r * RngMul) % RngMod

\* rng.gen_bool(pct / 100)
gen_bool(r, pct) == [v |-> (NextRng(r) % 100) < pct, r |-> NextRng(r)]
\* rng.gen_range(lo..hi), the range half-open, values on the grid
gen_range(r, lo, hi) == [v |-> lo + (NextRng(r) % (hi - lo)), r |-> NextRng(r)]

(***************************************************************************)
(* Expr of e11_1_benchmark.rs.  A tree is a record with field op and, by   *)
(* node kind, c (constant), a, b (children), p (exponent, in halves),      *)
(* k (scale factor).                                                       *)
(***************************************************************************)
Const(c) == [op |-> "Const", c |-> c]
X == [op |-> "X"]
Add(a, b) == [op |-> "Add", a |-> a, b |-> b]
Mul(a, b) == [op |-> "Mul", a |-> a, b |-> b]
Sin(a) == [op |-> "Sin", a |-> a]
Cos(a) == [op |-> "Cos", a |-> a]
Exp(a) == [op |-> "Exp", a |-> a]
Pow(a, p) == [op |-> "Pow", a |-> a, p |-> p]
Scale(a, k) == [op |-> "Scale", a |-> a, k |-> k]

\* mutant: the exponent applied to the base as it is
pow_node_raw(base, p) ==
    IF ~is_finite(base) THEN NaN ELSE powf(base, p)
\* lines 43-54: the Pow arm of eval, base the value of the child
pow_node(base, p) ==
    IF ~is_finite(base) THEN NaN
    ELSE IF base < 0 /\ fract_nonzero(p) THEN powf(Abs(base), p)
    ELSE powf(base, p)

\* e a tree, x a grid value
RECURSIVE eval(_, _)
eval(e, x) ==
    CASE e.op = "Const" -> e.c
      [] e.op = "X" -> x
      [] e.op = "Add" -> AddV(eval(e.a, x), eval(e.b, x))
      [] e.op = "Mul" -> MulV(eval(e.a, x), eval(e.b, x))
      [] e.op = "Sin" -> SinV(eval(e.a, x))
      [] e.op = "Cos" -> CosV(eval(e.a, x))
      [] e.op = "Exp" -> ExpV(eval(e.a, x))
      [] e.op = "Pow" ->
            Only({ pow_node(base, e.p) : base \in {eval(e.a, x)} })
      [] e.op = "Scale" -> MulV(eval(e.a, x), e.k)

RECURSIVE node_count(_)
node_count(e) ==
    CASE e.op \in {"Const", "X", "Pow", "Scale"} -> 1
      [] e.op \in {"Sin", "Cos", "Exp"} -> 1 + node_count(e.a)
      [] e.op \in {"Add", "Mul"} -> 1 + node_count(e.a) + node_count(e.b)

\* the child subexpressions of a node, left to right
children(e) ==
    CASE e.op \in {"Const", "X"} -> <<>>
      [] e.op \in {"Add", "Mul"} -> <<e.a, e.b>>
      [] OTHER -> <<e.a>>

\* a tree and all its subexpressions
RECURSIVE Subtrees(_)
Subtrees(e) ==
    {e} \cup UNION {Subtrees(children(e)[i]) : i \in 1..Len(children(e))}

Max(a0, b0) == Only({IF a > b THEN a ELSE b : a \in {a0}, b \in {b0}})
Min(a, b) == IF a < b THEN a ELSE b

\* height of a tree: 0 for a leaf
RECURSIVE Height(_)
Height(e) ==
    CASE e.op \in {"Const", "X"} -> 0
      [] e.op \in {"Add", "Mul"} -> 1 + Max(Height(e.a), Height(e.b))
      [] OTHER -> 1 + Height(e.a)

rand_const(r) == gen_range(r, -3, 3)

rand_leaf(r) ==
    Then(gen_bool(r, 50), LAMBDA g :
      IF g.v THEN [v |-> X, r |-> g.r]
      ELSE Then(rand_const(g.r), LAMBDA c : [v |-> Const(c.v), r |-> c.r]))

\* mutant: the depth test one level late
rand_expr_late(r, depth) ==
    Then(rand_leaf(r), LAMBDA a : [v |-> Sin(a.v), r |-> a.r])
RECURSIVE rand_expr(_, _)
rand_expr(r, depth) ==
    IF depth = 0 THEN rand_leaf(r)
    ELSE
      Then(gen_range(r, 0, 8), LAMBDA g :
        IF g.v \in {0, 1} THEN
            Then(rand_expr(g.r, depth - 1), LAMBDA a :
            Then(rand_expr(a.r, depth - 1), LAMBDA b :
              [v |-> IF g.v = 0 THEN Add(a.v, b.v) ELSE Mul(a.v, b.v), r |-> b.r]))
        ELSE IF g.v \in {2, 3, 4} THEN
            Then(rand_expr(g.r, depth - 1), LAMBDA a :
              [v |-> IF g.v = 2 THEN Sin(a.v)
                     ELSE IF g.v = 3 THEN Cos(a.v) ELSE Exp(a.v),
               r |-> a.r])
        ELSE IF g.v = 5 THEN
            Then(rand_expr(g.r, depth - 1), LAMBDA a :
            Then(gen_range(a.r, 1, 6), LAMBDA p :      \* 0.5..3.0 in halves
              [v |-> Pow(a.v, p.v), r |-> p.r]))
        ELSE IF g.v = 6 THEN
            Then(rand_expr(g.r, depth - 1), LAMBDA a :
            Then(gen_range(a.r, -3, 3), LAMBDA k :
              [v |-> Scale(a.v, k.v), r |-> k.r]))
        ELSE rand_leaf(g.r))

\* A perturbation c + gen_range(-0.2..0.2) is finer than the grid; it is
\* kept observable as a move of at most one grid step.
perturb(r) == gen_range(r, -1, 2)

\* mutant: the cap by the recursion depth missing
replacement_depth_fixed(depth) == 3
\* depth.min(3): the depth handed to rand_expr for a replacement subtree
replacement_depth(depth) == Min(depth, 3)

RECURSIVE mutate(_, _, _)
mutate(e, r, depth) ==
    Then(gen_bool(r, 12), LAMBDA g :
      IF g.v THEN rand_expr(g.r, replacement_depth(depth))
      ELSE
        CASE e.op = "Const" ->
                Then(perturb(g.r), LAMBDA d :
                  [v |-> Const(AddV(e.c, d.v)), r |-> d.r])
          [] e.op = "X" -> [v |-> X, r |-> g.r]
          [] e.op \in {"Add", "Mul"} ->
                Then(mutate(e.a, g.r, depth + 1), LAMBDA a :
                Then(mutate(e.b, a.r, depth + 1), LAMBDA b :
                  [v |-> [op |-> e.op, a |-> a.v, b |-> b.v], r |-> b.r]))
          [] e.op \in {"Sin", "Cos", "Exp"} ->
                Then(mutate(e.a, g.r, depth + 1), LAMBDA a :
                  [v |-> [op |-> e.op, a |-> a.v], r |-> a.r])
          [] e.op = "Pow" ->
                Then(mutate(e.a, g.r, depth + 1), LAMBDA a :
                Then(perturb(a.r), LAMBDA d :
                  [v |-> Pow(a.v, e.p + d.v), r |-> d.r]))
          [] e.op = "Scale" ->
                Then(mutate(e.a, g.r, depth + 1), LAMBDA a :
                Then(perturb(a.r), LAMBDA d :
                  [v |-> Scale(a.v, AddV(e.k, d.v)), r |-> d.r])))

\* mutant: a binary node gets the donor in both children
crossover_both(parent, donor, r, depth) ==
    Then(gen_bool(r, 10), LAMBDA g :
      IF g.v \/ parent.op \notin {"Add", "Mul"} THEN [v |-> donor, r |-> g.r]
      ELSE [v |-> [op |-> parent.op, a |-> donor, b |-> donor], r |-> g.r])

RECURSIVE crossover(_, _, _, _)
crossover(parent, donor, r, depth) ==
    Then(gen_bool(r, 10), LAMBDA g :
      IF g.v THEN [v |-> donor, r |-> g.r]
      ELSE
        CASE parent.op \in {"Const", "X", "Pow", "Scale"} -> [v |-> parent, r |-> g.r]
          [] parent.op \in {"Sin", "Cos", "Exp"} ->
                Then(crossover(parent.a, donor, g.r, depth + 1), LAMBDA a :
                  [v |-> [op |-> parent.op, a |-> a.v], r |-> a.r])
          [] parent.op \in {"Add", "Mul"} ->
                Then(gen_bool(g.r, 50), LAMBDA h :
                  IF h.v
                  THEN Then(crossover(parent.a, donor, h.r, depth + 1), LAMBDA a :
                         [v |-> [op |-> parent.op, a |-> a.v, b |-> parent.b],
                          r |-> a.r])
                  ELSE Then(crossover(parent.b, donor, h.r, depth + 1), LAMBDA b :
                         [v |-> [op |-> parent.op, a |-> parent.a, b |-> b.v],
                          r |-> b.r])))

RECURSIVE local_opt(_, _, _)
local_opt(e, r, steps) ==
    IF steps = 0 THEN [v |-> e, r |-> r]
    ELSE Then(gen_bool(r, 50), LAMBDA g :
           IF g.v
           THEN Then(mutate(e, g.r, 0), LAMBDA m : local_opt(m.v, m.r, steps - 1))
           ELSE local_opt(e, g.r, steps - 1))

(***************************************************************************)
(* Fitness of e11_1_benchmark.rs                                           *)
(***************************************************************************)
\* the sample grid handed to evolve_on (xs_grid, on the model's grid)
xs_grid == [i \in 1..(2 * GridHalf + 1) |-> i - GridHalf - 1]

\* the target handed to evolve_on: law_wave, 2 sin(1.3 x) + 1, on the grid
law(x) == AddV(MulV(2, SinV(x)), 1)

\* the substitute error of a non-finite sample (1e6), scaled to the grid: the
\* fitness of a tree that is non-finite on every sample stays finite
Penalty == 100
\* 1 / alpha: fitness values are kept in units of alpha = 0.01
AlphaInv == 100

\* one term d * d of the sum
sq_err(e, x, y) ==
    Only({ Only({ MulV(d, d)
                  : d \in {IF is_nan(val) \/ ~is_finite(val) THEN Penalty
                           ELSE SubV(val, y)} })
           : val \in {eval(e, x)} })

RECURSIVE sum_sq(_, _, _)
sum_sq(e, xs, i) ==
    IF i > Len(xs) THEN 0
    ELSE AddV(sq_err(e, xs[i], law(xs[i])), sum_sq(e, xs, i + 1))

\* sum / n, in units of alpha
mean(sum0, n) ==
    Only({ IF ~is_finite(sum) THEN sum
           ELSE IF n = 0 THEN (IF sum = 0 THEN NaN ELSE PInf)
           ELSE (AlphaInv * sum) \div n : sum \in {sum0} })

\* the value penalized_mse returns once it has claimed budget
penalized_value(e, xs) ==
    AddV(mean(sum_sq(e, xs, 1), Len(xs)), node_count(e))

\* mutant: the per-generation estimate, size penalty included, returned
mse_clean_estimate(e, xs) == penalized_value(e, xs)
\* mse_clean of evolve_on
mse_clean(e, xs) == mean(sum_sq(e, xs, 1), Len(xs))

(***************************************************************************)
(* LossCounter                                                             *)
(***************************************************************************)
\* mutant: the comparison of can() off by one
can_le(u, lim) == u <= lim
\* can(): self.used.load(SeqCst) < self.limit
can(u, lim) == u < lim

\* mutant: a load and a store in place of fetch_add, the store writing the
\* value the thread loaded earlier plus one
tick_stale(u, loaded) == loaded + 1
\* mutant: a claim counted twice
tick_twice(u, loaded) == u + 2
\* tick(): self.used.fetch_add(1, SeqCst), the new counter value.  fetch_add
\* reads the counter itself, never the value `loaded` by an earlier can()
tick(u, loaded) == u + 1

(***************************************************************************)
(* State                                                                   *)
(***************************************************************************)
VARIABLES
    cfg,        \* the call: driver, seed, eval_budget, generations, pop_size, threads
    pc,         \* position of the driver
    rng,        \* ChaCha8Rng state
    pop,        \* Vec<Expr>: the current generation
    next,       \* Vec<Expr>: the generation being built
    best,       \* best / best_expr
    best_fit,   \* best_fit
    used,       \* LossCounter.used
    gen,        \* loop index of evolve_symbolic
    fits,       \* fitness values of the current pass, by index of pop
    taken,      \* indices of pop whose penalized_mse call has begun
    finished,   \* indices of pop whose penalized_mse call has returned
    wk,         \* evaluator threads: position, item, and whether the call
                \* began with the budget already exhausted
    result,     \* what the driver returned
    prev,       \* what the previous run with this seed returned
    h,          \* history of the run (not program state)
    probe,      \* a direct call of a function: its arguments, then its result
    csv         \* crates/predict/data/knowledge_science.csv: its lines, each
                \* a sequence of fields; <<>> while the file does not exist

vars == <<cfg, pc, rng, pop, next, best, best_fit, used, gen, fits, taken,
          finished, wk, result, prev, h, probe, csv>>

NoResult == [done |-> FALSE]
NoProbe == [st |-> "none"]
Idle == [st |-> "idle", item |-> 0, late |-> FALSE, loaded |-> 0]
Workers == 1..cfg.threads
EmptyFits == [i \in {} |-> 0]

H0 == [attempts |-> 0,      \* penalized_mse calls that have returned
       somes |-> 0,         \* ... of which returned a fitness value
       lateTicks |-> 0,     \* claims by calls begun after exhaustion
       lateNones |-> 0,     \* None returned by calls begun after exhaustion
       passes |-> 0,        \* evaluation passes begun
       builds |-> 0,        \* next generations begun
       children |-> 0,      \* offspring pushed
       early |-> 0,         \* reproductions stopped short of pop_size
       improved |-> 0,      \* times best_fit was lowered
       improvedLate |-> 0,  \* ... of which in a generation after the first
       seen |-> {}]         \* <<expr, fitness>> of every evaluation

Configs ==
    [driver : {"evolve_on"}, seed : 0..MaxSeed, eval_budget : 0..MaxBudget,
     generations : {0}, pop_size : 0..MaxPop, threads : 1..MaxThreads]
    \cup
    [driver : {"evolve_symbolic"}, seed : 0..MaxSeed, eval_budget : {0},
     generations : 0..MaxGen, pop_size : 0..MaxPop, threads : {1}]

Fresh ==
    /\ pc = "start"
    /\ rng = 0
    /\ pop = <<>>
    /\ next = <<>>
    /\ best = X
    /\ best_fit = PInf
    /\ used = 0
    /\ gen = 0
    /\ fits = EmptyFits
    /\ taken = {}
    /\ finished = {}
    /\ wk = [w \in 1..cfg.threads |-> Idle]
    /\ result = NoResult
    /\ h = H0
    /\ csv = <<>>

Init ==
    /\ cfg \in Configs
    /\ prev = NoResult
    /\ probe = NoProbe
    /\ Fresh

\* (0..pop_size).map(|_| rand_expr(&mut rng, 3)).collect()
RECURSIVE init_pop(_, _, _)
init_pop(r, n, acc) ==
    IF n = 0 THEN [v |-> acc, r |-> r]
    ELSE Then(rand_expr(r, 3), LAMBDA e : init_pop(e.r, n - 1, Append(acc, e.v)))

(***************************************************************************)
(* evolve_on                                                               *)
(***************************************************************************)
\* lines 145-150; pop[0] of an empty population panics
OnStart ==
    /\ pc = "start"
    /\ cfg.driver = "evolve_on"
    /\ \E p \in {init_pop(seed_from_u64(cfg.seed), cfg.pop_size, <<>>)} :
       /\ rng' = p.r
       /\ pop' = p.v
       /\ IF cfg.pop_size = 0
          THEN pc' = "panic" /\ best' = best
          ELSE pc' = "while" /\ best' = p.v[1]
    /\ best_fit' = PInf
    /\ used' = 0
    /\ UNCHANGED <<csv, probe, cfg, next, gen, fits, taken, finished, wk, result, prev, h>>

\* line 152: while counter.can()
OnWhile ==
    /\ pc = "while"
    /\ IF can(used, cfg.eval_budget)
       THEN /\ pc' = "eval"
            /\ fits' = EmptyFits
            /\ taken' = {}
            /\ finished' = {}
            /\ h' = [h EXCEPT !.passes = @ + 1]
       ELSE /\ pc' = "final"
            /\ UNCHANGED <<fits, taken, finished, h>>
    /\ UNCHANGED <<csv, probe, cfg, rng, pop, next, best, best_fit, used, gen, wk, result, prev>>

\* mutant: a single thread too takes the items in any order
Begin_any(w, i) ==
    /\ pc = "eval"
    /\ wk[w].st = "idle"
    /\ \A v \in Workers : v < w => wk[v].st # "idle"
    /\ i \in (1..Len(pop)) \ taken
    /\ taken' = taken \cup {i}
    /\ wk' = [wk EXCEPT ![w] = [st |-> "can", item |-> i,
                                late |-> used >= cfg.eval_budget, loaded |-> 0]]
    /\ UNCHANGED <<csv, probe, cfg, pc, rng, pop, next, best, best_fit, used, gen, fits,
                   finished, result, prev, h>>

\* pop.par_iter(): an idle thread takes an item and enters penalized_mse.
\* One thread runs the items in order; several take them in any order.
Begin(w, i) ==
    /\ pc = "eval"
    /\ wk[w].st = "idle"
    /\ \A v \in Workers : v < w => wk[v].st # "idle"
    /\ i \in (1..Len(pop)) \ taken
    /\ cfg.threads = 1 => \A j \in (1..Len(pop)) \ taken : i <= j
    /\ taken' = taken \cup {i}
    /\ wk' = [wk EXCEPT ![w] = [st |-> "can", item |-> i,
                                late |-> used >= cfg.eval_budget, loaded |-> 0]]
    /\ UNCHANGED <<csv, probe, cfg, pc, rng, pop, next, best, best_fit, used, gen, fits,
                   finished, result, prev, h>>

\* mutant: the call waits for budget instead of returning None
CanStep_spin(w) ==
    /\ pc = "eval"
    /\ wk[w].st = "can"
    /\ IF can(used, cfg.eval_budget)
       THEN wk' = [wk EXCEPT ![w].st = "tick", ![w].loaded = used]
       ELSE wk' = wk
    /\ UNCHANGED <<csv, probe, cfg, pc, rng, pop, next, best, best_fit, used, gen, fits,
                   taken, finished, result, prev, h>>

\* line 126: if !counter.can() { return None; }
CanStep(w) ==
    /\ pc = "eval"
    /\ wk[w].st = "can"
    /\ IF can(used, cfg.eval_budget)
       THEN /\ wk' = [wk EXCEPT ![w].st = "tick", ![w].loaded = used]
            /\ UNCHANGED <<finished, h>>
       ELSE /\ wk' = [wk EXCEPT ![w] = Idle]
            /\ finished' = finished \cup {wk[w].item}
            /\ h' = [h EXCEPT !.attempts = @ + 1,
                              !.lateNones = @ + (IF wk[w].late THEN 1 ELSE 0)]
    /\ UNCHANGED <<csv, probe, cfg, pc, rng, pop, next, best, best_fit, used, gen, fits,
                   taken, result, prev>>

\* lines 128-136: counter.tick(), then the sum over xs and Some(..)
TickStep(w) ==
    /\ pc = "eval"
    /\ wk[w].st = "tick"
    /\ used' = tick(used, wk[w].loaded)
    /\ \E i \in {wk[w].item} : \E f \in {penalized_value(pop[wk[w].item], xs_grid)} :
          /\ fits' = (i :> f) @@ fits
          /\ finished' = finished \cup {i}
          /\ h' = [h EXCEPT !.attempts = @ + 1, !.somes = @ + 1,
                            !.lateTicks = @ + (IF wk[w].late THEN 1 ELSE 0),
                            !.seen = @ \cup {<<pop[i], f>>}]
    /\ wk' = [wk EXCEPT ![w] = Idle]
    /\ UNCHANGED <<csv, probe, cfg, pc, rng, pop, next, best, best_fit, gen, taken, result, prev>>

\* mutant: <= in place of <
better_le(f, bf) == f # NaN /\ bf # NaN /\ f <= bf
\* mutant: != in place of <
better_ne(f, bf) == f # bf
\* mutant: every fitness that is a number taken as the new best
better_any(f, bf) == f # NaN
\* if *f < best_fit
better(f, bf) == Lt(f, bf)

\* mutant: the best never updated
track_best_none(fs, p, i, b) == b
\* line 158: for (i,f) in &fits { if *f < best_fit { .. } }, fits in index order
RECURSIVE track_best(_, _, _, _)
track_best(fs, p, i, b) ==
    IF i > Len(p) THEN b
    ELSE IF i \in DOMAIN fs /\ better(fs[i], b.fit)
         THEN track_best(fs, p, i + 1, [expr |-> p[i], fit |-> fs[i], n |-> b.n + 1])
         ELSE track_best(fs, p, i + 1, b)

\* mutant: the first member of the current generation kept as the elite
elite_first(b, p) == <<p[1]>>
\* next.push(best.clone()): the next generation starts with the elite; the
\* current generation p plays no part
elite(b, p) == <<b>>

\* mutant: the break taken only once the counter is above the limit
exhausted_gt(u, lim) == u > lim
\* mutant: the break after the evaluation pass missing
exhausted_never(u, lim) == FALSE
\* line 159: if !counter.can() { break; }
exhausted(u, lim) == ~can(u, lim)

\* lines 154-162: collect() has joined every evaluator
OnCollect ==
    /\ pc = "eval"
    /\ finished = 1..Len(pop)
    /\ \E b \in {track_best(fits, pop, 1, [expr |-> best, fit |-> best_fit, n |-> 0])} :
       /\ best' = b.expr
       /\ best_fit' = b.fit
       /\ IF exhausted(used, cfg.eval_budget)
          THEN /\ pc' = "final"
               /\ next' = next
               /\ h' = [h EXCEPT !.improved = @ + b.n,
                                 !.improvedLate = @ + (IF h.passes >= 2 THEN b.n ELSE 0)]
          ELSE /\ pc' = "repro"
               /\ next' = elite(b.expr, pop)
               /\ h' = [h EXCEPT !.improved = @ + b.n,
                                 !.improvedLate = @ + (IF h.passes >= 2 THEN b.n ELSE 0),
                                 !.builds = @ + 1]
    /\ UNCHANGED <<csv, probe, cfg, rng, pop, used, gen, fits, taken, finished, wk, result, prev>>

\* mutant: the length test off by one
repro_more_short(nx, p, u, lim) == Len(nx) + 1 < Len(p) /\ can(u, lim)
\* mutant: every offspring pushed so far counted against the budget
repro_more_spent(nx, p, u, lim) == Len(nx) < Len(p) /\ can(u + Len(nx), lim)
\* line 163: while next.len() < pop.len() && counter.can()
repro_more(nx, p, u, lim) == Len(nx) < Len(p) /\ can(u, lim)

\* mutant: the sanity check looks at x = 0 only
sample_ok_zero(child) == is_finite(eval(child, 0))
\* lines 164-176: one offspring; cand is the child before the sanity check
\* and rc the generator after the child was built
sample_ok(child) ==
    Only({ is_finite(t0) /\ is_finite(t1)
           : t0 \in {eval(child, 0)}, t1 \in {eval(child, 1)} })

offspring(p, r) ==
    Then(gen_range(r, 0, Len(p)), LAMBDA i :
    Then(gen_range(i.r, 0, Len(p)), LAMBDA j :
    Then(local_opt(p[i.v + 1], j.r, 1), LAMBDA l :
    Then(crossover(l.v, p[j.v + 1], l.r, 0), LAMBDA c :
    Then(mutate(c.v, c.r, 0), LAMBDA m :
      IF sample_ok(m.v)
      THEN [v |-> m.v, r |-> m.r, fresh |-> FALSE, cand |-> m.v, rc |-> m.r]
      ELSE Then(rand_expr(m.r, 2), LAMBDA n :
             [v |-> n.v, r |-> n.r, fresh |-> TRUE, cand |-> m.v, rc |-> m.r]))))))

\* lines 163-178: one iteration of the reproduction loop
OnRepro ==
    /\ pc = "repro"
    /\ repro_more(next, pop, used, cfg.eval_budget)
    /\ \E c \in {offspring(pop, rng)} :
       /\ next' = Append(next, c.v)
       /\ rng' = c.r
    /\ h' = [h EXCEPT !.children = @ + 1]
    /\ UNCHANGED <<csv, probe, cfg, pc, pop, best, best_fit, used, gen, fits, taken, finished,
                   wk, result, prev>>

\* line 179: pop = next
OnReproEnd ==
    /\ pc = "repro"
    /\ ~repro_more(next, pop, used, cfg.eval_budget)
    /\ pop' = next
    /\ pc' = "while"
    /\ h' = [h EXCEPT !.early = @ + (IF Len(next) < Len(pop) THEN 1 ELSE 0)]
    /\ UNCHANGED <<csv, probe, cfg, rng, next, best, best_fit, used, gen, fits, taken, finished,
                   wk, result, prev>>

\* lines 182-189
OnFinal ==
    /\ pc = "final"
    /\ cfg.driver = "evolve_on"
    /\ result' = [done |-> TRUE, expr |-> best, mse |-> mse_clean(best, xs_grid),
                  used |-> used]
    /\ pc' = "done"
    /\ UNCHANGED <<csv, probe, cfg, rng, pop, next, best, best_fit, used, gen, fits, taken,
                   finished, wk, prev, h>>

EvolveOn ==
    \/ OnStart
    \/ OnWhile
    \/ \E w \in Workers : \E i \in 1..Len(pop) : Begin(w, i)
    \/ \E w \in Workers : CanStep(w)
    \/ \E w \in Workers : TickStep(w)
    \/ OnCollect
    \/ OnRepro
    \/ OnReproEnd
    \/ OnFinal

(***************************************************************************)
(* scientist.rs: Expr (Const, X, Add, Mul, Sin, Cos, Pow2) and operators   *)
(***************************************************************************)
Pow2(a) == [op |-> "Pow2", a |-> a]

\* sample counts of mse: the per-generation estimate (200), the periodic
\* check (2000) and the final pass (5000), scaled to the model
FastN == 2
CheckN == 3
FinalN == 4

RECURSIVE eval_sci(_, _)
eval_sci(e, x) ==
    CASE e.op = "Const" -> e.c
      [] e.op = "X" -> x
      [] e.op = "Add" -> AddV(eval_sci(e.a, x), eval_sci(e.b, x))
      [] e.op = "Mul" -> MulV(eval_sci(e.a, x), eval_sci(e.b, x))
      [] e.op = "Sin" -> SinV(eval_sci(e.a, x))
      [] e.op = "Cos" -> CosV(eval_sci(e.a, x))
      [] e.op = "Pow2" -> Only({MulV(v, v) : v \in {eval_sci(e.a, x)}})

RECURSIVE rand_expr_sci(_, _)
rand_expr_sci(r, depth) ==
    IF depth = 0 THEN rand_leaf(r)
    ELSE
      Then(gen_range(r, 0, 6), LAMBDA g :
        IF g.v \in {0, 1} THEN
            Then(rand_expr_sci(g.r, depth - 1), LAMBDA a :
            Then(rand_expr_sci(a.r, depth - 1), LAMBDA b :
              [v |-> IF g.v = 0 THEN Add(a.v, b.v) ELSE Mul(a.v, b.v), r |-> b.r]))
        ELSE IF g.v \in {2, 3, 4} THEN
            Then(rand_expr_sci(g.r, depth - 1), LAMBDA a :
              [v |-> IF g.v = 2 THEN Sin(a.v)
                     ELSE IF g.v = 3 THEN Cos(a.v) ELSE Pow2(a.v),
               r |-> a.r])
        ELSE rand_leaf(g.r))

RECURSIVE mutate_sci(_, _, _)
mutate_sci(e, r, depth) ==
    Then(gen_bool(r, 15), LAMBDA g :
      IF g.v THEN rand_expr_sci(g.r, replacement_depth(depth))
      ELSE
        CASE e.op = "Const" ->
                Then(gen_bool(g.r, 60), LAMBDA q :
                  IF q.v
                  THEN Then(rand_const(q.r), LAMBDA c : [v |-> Const(c.v), r |-> c.r])
                  ELSE Then(perturb(q.r), LAMBDA d :
                         [v |-> Const(AddV(e.c, d.v)), r |-> d.r]))
          [] e.op = "X" ->
                Then(gen_bool(g.r, 10), LAMBDA q :
                  IF q.v
                  THEN Then(rand_const(q.r), LAMBDA c : [v |-> Const(c.v), r |-> c.r])
                  ELSE [v |-> X, r |-> q.r])
          [] e.op \in {"Add", "Mul"} ->
                Then(mutate_sci(e.a, g.r, depth + 1), LAMBDA a :
                Then(mutate_sci(e.b, a.r, depth + 1), LAMBDA b :
                  [v |-> [op |-> e.op, a |-> a.v, b |-> b.v], r |-> b.r]))
          [] e.op \in {"Sin", "Cos"} ->
                Then(gen_bool(g.r, 10), LAMBDA q :
                  IF q.v
                  THEN [v |-> IF e.op = "Sin" THEN Cos(e.a) ELSE Sin(e.a), r |-> q.r]
                  ELSE Then(mutate_sci(e.a, q.r, depth + 1), LAMBDA a :
                         [v |-> [op |-> e.op, a |-> a.v], r |-> a.r]))
          [] e.op = "Pow2" ->
                Then(mutate_sci(e.a, g.r, depth + 1), LAMBDA a :
                  [v |-> Pow2(a.v), r |-> a.r]))

\* target of evolve_symbolic: sin(1.2 x) + 0.4 x^2 + 0.8 x + 0.5, rounded
target(x) == AddV(SinV(x), (4 * x * x + 8 * x + 10) \div 10)

\* the loop of mse: s += d*d over n sampled points
RECURSIVE mse_sum(_, _, _, _)
mse_sum(e, r, n, s) ==
    IF n = 0 THEN [v |-> s, r |-> r]
    ELSE Then(gen_range(r, -5, 5), LAMBDA x :
           Only({ Only({ mse_sum(e, x.r, n - 1, t)
                         : t \in {AddV(s, MulV(d, d))} })
                  : d \in {SubV(eval_sci(e, x.v), target(x.v))} }))

mse(e, r, n) ==
    Then(mse_sum(e, r, n, 0), LAMBDA t : [v |-> mean(t.v, n), r |-> t.r])

\* the k - 1 further draws of tournament
RECURSIVE tournament_loop(_, _, _, _, _)
tournament_loop(fs, r, k, best_idx, bf) ==
    IF k <= 1 THEN [v |-> best_idx, r |-> r]
    ELSE Then(gen_range(r, 0, Len(fs)), LAMBDA i :
           IF Lt(fs[i.v + 1], bf)
           THEN tournament_loop(fs, i.r, k - 1, i.v + 1, fs[i.v + 1])
           ELSE tournament_loop(fs, i.r, k - 1, best_idx, bf))

\* returns the (1-based) index of the selected member
tournament(p, fs, r, k) ==
    Then(gen_range(r, 0, Len(p)), LAMBDA i :
      tournament_loop(fs, i.r, k, i.v + 1, fs[i.v + 1]))

(***************************************************************************)
(* evolve_symbolic                                                         *)
(***************************************************************************)
RECURSIVE init_pop_sci(_, _, _)
init_pop_sci(r, n, acc) ==
    IF n = 0 THEN [v |-> acc, r |-> r]
    ELSE Then(rand_expr_sci(r, 3), LAMBDA e :
           init_pop_sci(e.r, n - 1, Append(acc, e.v)))

\* lines 207-217; pop[0] of an empty population panics
SymStart ==
    /\ pc = "start"
    /\ cfg.driver = "evolve_symbolic"
    /\ \E p \in {init_pop_sci(seed_from_u64(cfg.seed), cfg.pop_size, <<>>)} :
       /\ rng' = p.r
       /\ pop' = p.v
       /\ IF cfg.pop_size = 0
          THEN pc' = "panic" /\ best' = best
          ELSE pc' = "sfor" /\ best' = p.v[1]
    /\ best_fit' = PInf
    /\ gen' = 0
    /\ UNCHANGED <<csv, probe, cfg, next, used, fits, taken, finished, wk, result, prev, h>>

\* line 219: for gen in 0..generations
SymFor ==
    /\ pc = "sfor"
    /\ IF gen < cfg.generations
       THEN /\ pc' = "smse"
            /\ fits' = EmptyFits
            /\ h' = [h EXCEPT !.passes = @ + 1]
       ELSE /\ pc' = "sfinal"
            /\ UNCHANGED <<fits, h>>
    /\ UNCHANGED <<csv, probe, cfg, rng, pop, next, best, best_fit, used, gen, taken, finished,
                   wk, result, prev>>

\* lines 222-229: one iteration of for e in &pop
SymEval ==
    /\ pc = "smse"
    /\ Len(fits) < Len(pop)
    /\ \E i \in {Len(fits) + 1} : \E f \in {mse(pop[Len(fits) + 1], rng, FastN)} :
          /\ rng' = f.r
          /\ fits' = Append(fits, f.v)
          /\ IF better(f.v, best_fit)
             THEN /\ best_fit' = f.v
                  /\ best' = pop[i]
                  /\ h' = [h EXCEPT !.improved = @ + 1,
                                    !.improvedLate = @ + (IF h.passes >= 2 THEN 1 ELSE 0),
                                    !.seen = @ \cup {<<pop[i], f.v>>}]
             ELSE /\ UNCHANGED <<best_fit, best>>
                  /\ h' = [h EXCEPT !.seen = @ \cup {<<pop[i], f.v>>}]
    /\ UNCHANGED <<csv, probe, cfg, pc, pop, next, used, gen, taken, finished, wk, result, prev>>

\* lines 232-233: next.push(best_expr.clone())
SymBuild ==
    /\ pc = "smse"
    /\ Len(fits) = Len(pop)
    /\ next' = elite(best, pop)
    /\ pc' = "srepro"
    /\ h' = [h EXCEPT !.builds = @ + 1]
    /\ UNCHANGED <<csv, probe, cfg, rng, pop, best, best_fit, used, gen, fits, taken, finished,
                   wk, result, prev>>

\* line 234: while next.len() < pop_size
sym_more(nx, n) == Len(nx) < n

\* lines 235-237: one iteration of the reproduction loop
SymRepro ==
    /\ pc = "srepro"
    /\ sym_more(next, cfg.pop_size)
    /\ \E t \in {tournament(pop, fits, rng, 3)} :
       \E c \in {mutate_sci(pop[t.v], t.r, 0)} :
          /\ next' = Append(next, c.v)
          /\ rng' = c.r
    /\ h' = [h EXCEPT !.children = @ + 1]
    /\ UNCHANGED <<csv, probe, cfg, pc, pop, best, best_fit, used, gen, fits, taken, finished,
                   wk, result, prev>>

\* lines 239-246: pop = next, and every 50th generation a re-check of best
SymReproEnd ==
    /\ pc = "srepro"
    /\ ~sym_more(next, cfg.pop_size)
    /\ pop' = next
    /\ rng' = IF gen % 50 = 0 THEN mse(best, rng, CheckN).r ELSE rng
    /\ gen' = gen + 1
    /\ pc' = "sfor"
    /\ UNCHANGED <<csv, probe, cfg, next, best, best_fit, used, fits, taken, finished, wk,
                   result, prev, h>>

\* a / b rounded to the nearest integer, for a >= 0 and b > 0
DivRound(a, b) == (2 * a + b) \div (2 * b)

\* mutant: 1.0 / mse
curiosity_no_one(m) ==
    IF is_nan(m) THEN NaN
    ELSE IF ~is_finite(m) THEN 0
    ELSE IF m = 0 THEN PInf
    ELSE Sgn(m) * DivRound(AlphaInv * AlphaInv, Abs(m))
\* 1.0 / (1.0 + mse)
curiosity_from_mse(m) ==
    IF is_nan(m) THEN NaN
    ELSE IF ~is_finite(m) THEN 0
    ELSE IF AlphaInv + m = 0 THEN PInf
    ELSE Sgn(AlphaInv + m) * DivRound(AlphaInv * AlphaInv, Abs(AlphaInv + m))

\* {:.6} of an mse or a curiosity, which are counted in units of alpha
Digits2(n) == IF n < 10 THEN "0" \o ToString(n) ELSE ToString(n)

fmt6(v) ==
    IF is_nan(v) THEN "NaN"
    ELSE IF v = PInf THEN "inf"
    ELSE IF v = NInf THEN "-inf"
    ELSE (IF v < 0 THEN "-" ELSE "") \o ToString(Abs(v) \div AlphaInv) \o "."
         \o Digits2(Abs(v) % AlphaInv) \o "0000"

\* {:.3} of a constant
fmt3(v) ==
    IF is_nan(v) THEN "NaN"
    ELSE IF v = PInf THEN "inf"
    ELSE IF v = NInf THEN "-inf"
    ELSE (IF v < 0 THEN "-" ELSE "") \o ToString(Abs(v)) \o ".000"

\* impl fmt::Debug for Expr
RECURSIVE Debug(_)
Debug(e) ==
    CASE e.op = "Const" -> fmt3(e.c)
      [] e.op = "X" -> "x"
      [] e.op = "Add" -> "(" \o Debug(e.a) \o "+" \o Debug(e.b) \o ")"
      [] e.op = "Mul" -> "(" \o Debug(e.a) \o "*" \o Debug(e.b) \o ")"
      [] e.op = "Sin" -> "sin(" \o Debug(e.a) \o ")"
      [] e.op = "Cos" -> "cos(" \o Debug(e.a) \o ")"
      [] e.op = "Pow2" -> "(" \o Debug(e.a) \o ")^2"

\* {:x} of a timestamp
RECURSIVE Hex(_)
Hex(n) ==
    IF n < 16
    THEN <<"0", "1", "2", "3", "4", "5", "6", "7", "8", "9",
           "a", "b", "c", "d", "e", "f">>[n + 1]
    ELSE Hex(n \div 16) \o Hex(n % 16)

\* the file with its header written when it did not exist
with_header(file, header) == IF file = <<>> THEN <<header>> ELSE file

\* save_discovery: one row name,formula,mse,curiosity appended
save_discovery(file, name, formula, m) ==
    Append(with_header(file, <<"name", "formula", "mse", "curiosity">>),
           <<name, formula, fmt6(m), fmt6(curiosity_from_mse(m))>>)

\* log_discovery: one row formula,mse,curiosity,date appended
log_discovery(file, e, m, now) ==
    Append(with_header(file, <<"formula", "mse", "curiosity", "date">>),
           <<Debug(e), fmt6(m), fmt6(curiosity_from_mse(m)), ToString(now)>>)

\* the readings of the clock (chrono::Utc::now())
MaxClock == 1

\* lines 250-259; the io::Result of both writers is dropped (lines 255, 257)
\* and the writes are taken to succeed
SymFinal ==
    /\ pc = "sfinal"
    /\ \E f \in {mse(best, rng, FinalN)} :
       /\ rng' = f.r
       /\ result' = [done |-> TRUE, expr |-> best, mse |-> f.v, used |-> 0]
       /\ \E t1 \in 0..MaxClock : \E t2 \in t1..MaxClock :
          \E name \in {"evolve_" \o ToString(cfg.seed) \o "_" \o Hex(t1)} :
          \E saved \in {save_discovery(csv, name, Debug(best), f.v)} :
             csv' = log_discovery(saved, best, f.v, t2)
    /\ pc' = "done"
    /\ UNCHANGED <<probe, cfg, pop, next, best, best_fit, used, gen, fits, taken, finished,
                   wk, prev, h>>

EvolveSymbolic ==
    \/ SymStart
    \/ SymFor
    \/ SymEval
    \/ SymBuild
    \/ SymRepro
    \/ SymReproEnd
    \/ SymFinal

Next == EvolveOn \/ EvolveSymbolic

Spec == Init /\ [][Next]_vars

\* Every thread that can take a step eventually takes one: the evaluators
\* are OS threads of a rayon pool and the driver is sequential code.
FairSpec == Spec /\ WF_vars(Next)

(***************************************************************************)
(* A second run of the driver with the same seed, budget, population size  *)
(* and grid, on any number of evaluator threads; prev keeps what the first *)
(* run returned, the state it left its generator in and its thread count.  *)
(***************************************************************************)
Rerun(t) ==
    /\ pc = "done"
    /\ ~prev.done
    /\ cfg.driver = "evolve_symbolic" => t = 1
    /\ prev' = [done |-> TRUE, expr |-> result.expr, mse |-> result.mse,
                 used |-> result.used, rng |-> rng, threads |-> cfg.threads]
    /\ cfg' = [cfg EXCEPT !.threads = t]
    /\ pc' = "start"
    /\ rng' = 0
    /\ pop' = <<>>
    /\ next' = <<>>
    /\ best' = X
    /\ best_fit' = PInf
    /\ used' = 0
    /\ gen' = 0
    /\ fits' = EmptyFits
    /\ taken' = {}
    /\ finished' = {}
    /\ wk' = [w \in 1..t |-> Idle]
    /\ result' = NoResult
    /\ h' = H0
    /\ probe' = probe
    /\ csv' = csv

NextRerun == Next \/ \E t \in 1..MaxThreads : Rerun(t)

SpecRerun == Init /\ [][NextRerun]_vars

\* The same, both runs on one thread.
NextRerunSingle == Next \/ (cfg.threads = 1 /\ Rerun(1))

SpecRerunSingle == Init /\ [][NextRerunSingle]_vars

(***************************************************************************)
(* Direct calls of the fitness functions on given trees: chains of unary   *)
(* nodes over X, the kind of tree on which evaluation overflows.           *)
(***************************************************************************)
MaxChain == 5

RECURSIVE Chains(_, _)
Chains(ops, n) ==
    IF n = 0 THEN {X}
    ELSE Only({ shorter \cup {[op |-> o, a |-> t] : o \in ops, t \in shorter}
                : shorter \in {Chains(ops, n - 1)} })

\* the call that is not in progress in these specifications
NoCall ==
    [driver |-> "evolve_on", seed |-> 0, eval_budget |-> 0, generations |-> 0,
     pop_size |-> 0, threads |-> 1]

InitFitness ==
    /\ cfg = NoCall
    /\ prev = NoResult
    /\ Fresh
    /\ probe \in [st : {"mse"}, e : Chains({"Sin", "Pow2"}, MaxChain),
                   seed : 0..MaxSeed]
               \cup [st : {"penalized_mse"}, e : Chains({"Cos", "Exp"}, MaxChain),
                     seed : {0}]

\* scientist.rs: mse(expr, target, rng, 200) with a freshly seeded generator
CallMse ==
    /\ probe.st = "mse"
    /\ probe' = [st |-> "mse_done", e |-> probe.e,
                 fit |-> mse(probe.e, seed_from_u64(probe.seed), FastN).v]
    /\ UNCHANGED <<csv, cfg, pc, rng, pop, next, best, best_fit, used, gen, fits, taken,
                   finished, wk, result, prev, h>>

\* e11_1_benchmark.rs: penalized_mse with budget left, and the final pass
\* of evolve_on on the same tree
CallPenalizedMse ==
    /\ probe.st = "penalized_mse"
    /\ probe' = [st |-> "penalized_mse_done", e |-> probe.e,
                 fit |-> penalized_value(probe.e, xs_grid),
                 clean |-> mse_clean(probe.e, xs_grid)]
    /\ UNCHANGED <<csv, cfg, pc, rng, pop, next, best, best_fit, used, gen, fits, taken,
                   finished, wk, result, prev, h>>

NextFitness == CallMse \/ CallPenalizedMse

SpecFitness == InitFitness /\ [][NextFitness]_vars

(***************************************************************************)
(* curiosity_from_mse, called directly.  An mse and a curiosity are kept   *)
(* in units of alpha like every fitness, and a quotient is rounded to the  *)
(* nearest value the grid has, as f64 division rounds to the nearest f64.  *)
(***************************************************************************)
MaxMse == 10

InitCuriosity ==
    /\ cfg = NoCall
    /\ prev = NoResult
    /\ Fresh
    /\ probe \in [st : {"curiosity_from_mse"}, mse1 : 0..MaxMse, mse2 : 0..MaxMse]

\* two calls of curiosity_from_mse
CallCuriosity ==
    /\ probe.st = "curiosity_from_mse"
    /\ probe' = [st |-> "curiosity_done", mse1 |-> probe.mse1, mse2 |-> probe.mse2,
                 c1 |-> curiosity_from_mse(probe.mse1),
                 c2 |-> curiosity_from_mse(probe.mse2)]
    /\ UNCHANGED <<csv, cfg, pc, rng, pop, next, best, best_fit, used, gen, fits, taken,
                   finished, wk, result, prev, h>>

NextCuriosity == CallCuriosity

SpecCuriosity == InitCuriosity /\ [][NextCuriosity]_vars

(***************************************************************************)
(* The genetic operators applied generation after generation to one line   *)
(* of descent: a tree, then its offspring, then the offspring's offspring. *)
(***************************************************************************)
MaxSteps == 8
MaxLine == 12

\* the depth handed to rand_expr for the initial population, and the cap
\* depth.min(3) of mutate
DepthLimit == 3

InitGrow ==
    /\ cfg = NoCall
    /\ prev = NoResult
    /\ Fresh
    /\ \E s \in 0..MaxLine :
          \/ \E t \in {rand_expr(seed_from_u64(s), DepthLimit)} :
                probe = [st |-> "evolve_on", e |-> t.v, r |-> t.r, n |-> 0,
                         from |-> t.v]
          \/ \E t \in {rand_expr_sci(seed_from_u64(s), DepthLimit)} :
                probe = [st |-> "evolve_symbolic", e |-> t.v, r |-> t.r, n |-> 0,
                         from |-> t.v]

\* e11_1_benchmark.rs lines 166-167 with both parents the same tree
GrowOn ==
    /\ probe.st = "evolve_on"
    /\ probe.n < MaxSteps
    /\ \E l \in {local_opt(probe.e, probe.r, 1)} :
       \E c \in {crossover(l.v, probe.e, l.r, 0)} :
       \E m \in {mutate(c.v, c.r, 0)} :
          probe' = [st |-> "evolve_on", e |-> m.v, r |-> m.r, n |-> probe.n + 1,
                    from |-> probe.e]
    /\ UNCHANGED <<csv, cfg, pc, rng, pop, next, best, best_fit, used, gen, fits, taken,
                   finished, wk, result, prev, h>>

\* scientist.rs line 236
GrowSymbolic ==
    /\ probe.st = "evolve_symbolic"
    /\ probe.n < MaxSteps
    /\ \E m \in {mutate_sci(probe.e, probe.r, 0)} :
          probe' = [st |-> "evolve_symbolic", e |-> m.v, r |-> m.r,
                    n |-> probe.n + 1, from |-> probe.e]
    /\ UNCHANGED <<csv, cfg, pc, rng, pop, next, best, best_fit, used, gen, fits, taken,
                   finished, wk, result, prev, h>>

NextGrow == GrowOn \/ GrowSymbolic

SpecGrow == InitGrow /\ [][NextGrow]_vars

(***************************************************************************)
(* rand_expr of both files, called directly.                               *)
(***************************************************************************)
MaxDepthArg == 3

InitRandExpr ==
    /\ cfg = NoCall
    /\ prev = NoResult
    /\ Fresh
    /\ probe \in [st : {"rand_expr", "rand_expr_sci"}, d : 0..MaxDepthArg,
                   seed : 0..MaxLine]

\* e11_1_benchmark.rs: rand_expr(&mut rng, d)
CallRandExpr ==
    /\ probe.st = "rand_expr"
    /\ \E t \in {rand_expr(seed_from_u64(probe.seed), probe.d)} :
          probe' = [st |-> "rand_expr_done", d |-> probe.d, seed |-> probe.seed,
                    e |-> t.v]
    /\ UNCHANGED <<csv, cfg, pc, rng, pop, next, best, best_fit, used, gen, fits, taken,
                   finished, wk, result, prev, h>>

\* scientist.rs: rand_expr(&mut rng, d)
CallRandExprSci ==
    /\ probe.st = "rand_expr_sci"
    /\ \E t \in {rand_expr_sci(seed_from_u64(probe.seed), probe.d)} :
          probe' = [st |-> "rand_expr_sci_done", d |-> probe.d, seed |-> probe.seed,
                    e |-> t.v]
    /\ UNCHANGED <<csv, cfg, pc, rng, pop, next, best, best_fit, used, gen, fits, taken,
                   finished, wk, result, prev, h>>

NextRandExpr == CallRandExpr \/ CallRandExprSci

SpecRandExpr == InitRandExpr /\ [][NextRandExpr]_vars

(***************************************************************************)
(* mutate of both files, called directly at a recursion depth d on a tree  *)
(* from rand_expr.  replaced tells whether the call took the replacement   *)
(* branch (its first draw).                                                *)
(***************************************************************************)
MaxDraw == 40

InitMutate ==
    /\ cfg = NoCall
    /\ prev = NoResult
    /\ Fresh
    /\ probe \in [st : {"mutate", "mutate_sci"}, d : 0..(MaxDepthArg + 1),
                   seed : 0..MaxDraw]

\* e11_1_benchmark.rs: mutate(&e, &mut rng, d)
CallMutate ==
    /\ probe.st = "mutate"
    /\ \E t \in {rand_expr(seed_from_u64(probe.seed + 1), DepthLimit)} :
       \E m \in {mutate(t.v, seed_from_u64(probe.seed), probe.d)} :
          probe' = [st |-> "mutate_done", d |-> probe.d, seed |-> probe.seed,
                    e |-> t.v, out |-> m.v,
                    replaced |-> gen_bool(seed_from_u64(probe.seed), 12).v]
    /\ UNCHANGED <<csv, cfg, pc, rng, pop, next, best, best_fit, used, gen, fits, taken,
                   finished, wk, result, prev, h>>

\* scientist.rs: mutate(&e, &mut rng, d)
CallMutateSci ==
    /\ probe.st = "mutate_sci"
    /\ \E t \in {rand_expr_sci(seed_from_u64(probe.seed + 1), DepthLimit)} :
       \E m \in {mutate_sci(t.v, seed_from_u64(probe.seed), probe.d)} :
          probe' = [st |-> "mutate_sci_done", d |-> probe.d, seed |-> probe.seed,
                    e |-> t.v, out |-> m.v,
                    replaced |-> gen_bool(seed_from_u64(probe.seed), 15).v]
    /\ UNCHANGED <<csv, cfg, pc, rng, pop, next, best, best_fit, used, gen, fits, taken,
                   finished, wk, result, prev, h>>

NextMutate == CallMutate \/ CallMutateSci

SpecMutate == InitMutate /\ [][NextMutate]_vars

(***************************************************************************)
(* crossover called directly at depth 0 on a parent and a donor that both  *)
(* come from rand_expr.  replaced tells whether the call took the          *)
(* whole-node donor replacement (its first draw).                          *)
(***************************************************************************)
InitCrossover ==
    /\ cfg = NoCall
    /\ prev = NoResult
    /\ Fresh
    /\ probe \in [st : {"crossover"}, pseed : 0..MaxLine, seed : 0..MaxDraw]

\* crossover(&parent, &donor, &mut rng, 0)
CallCrossover ==
    /\ probe.st = "crossover"
    /\ \E t \in {rand_expr(seed_from_u64(probe.pseed), DepthLimit)} :
       \E u \in {rand_expr(t.r, DepthLimit)} :
       \E c \in {crossover(t.v, u.v, seed_from_u64(probe.seed), 0)} :
          probe' = [st |-> "crossover_done", pseed |-> probe.pseed,
                    seed |-> probe.seed, parent |-> t.v, donor |-> u.v,
                    out |-> c.v,
                    replaced |-> gen_bool(seed_from_u64(probe.seed), 10).v]
    /\ UNCHANGED <<csv, cfg, pc, rng, pop, next, best, best_fit, used, gen, fits, taken,
                   finished, wk, result, prev, h>>

NextCrossover == CallCrossover

SpecCrossover == InitCrossover /\ [][NextCrossover]_vars

(***************************************************************************)
(* One offspring of evolve_on (lines 164-177) built from a population of   *)
(* two chains of Exp nodes over X, the trees whose value overflows at the  *)
(* sample points; out is the child that is pushed to next.                 *)
(***************************************************************************)
InitOffspring ==
    /\ cfg = NoCall
    /\ prev = NoResult
    /\ Fresh
    /\ probe \in [st : {"offspring"},
                   pop : [1..2 -> Chains({"Exp"}, MaxChain)],
                   seed : 0..MaxLine]

CallOffspring ==
    /\ probe.st = "offspring"
    /\ \E o \in {offspring(probe.pop, seed_from_u64(probe.seed))} :
          probe' = [st |-> "offspring_done", pop |-> probe.pop,
                    seed |-> probe.seed, cand |-> o.cand, rc |-> o.rc,
                    out |-> o.v]
    /\ UNCHANGED <<csv, cfg, pc, rng, pop, next, best, best_fit, used, gen, fits, taken,
                   finished, wk, result, prev, h>>

NextOffspring == CallOffspring

SpecOffspring == InitOffspring /\ [][NextOffspring]_vars

(***************************************************************************)
(* tournament called directly as evolve_symbolic calls it (k = 3) on a     *)
(* population of MaxPop members with the fitness values mse can return: a  *)
(* number or NaN.  out is the 1-based index of the member returned.        *)
(***************************************************************************)
TournamentK == 3

InitTournament ==
    /\ cfg = NoCall
    /\ prev = NoResult
    /\ Fresh
    /\ probe \in [st : {"tournament"}, fits : [1..MaxPop -> {0, 1, NaN}],
                   seed : 0..MaxLine]

\* tournament(&pop, &fits, &mut rng, 3)
CallTournament ==
    /\ probe.st = "tournament"
    /\ \E t \in {tournament(probe.fits, probe.fits, seed_from_u64(probe.seed),
                             TournamentK)} :
          probe' = [st |-> "tournament_done", fits |-> probe.fits,
                    seed |-> probe.seed, out |-> t.v]
    /\ UNCHANGED <<csv, cfg, pc, rng, pop, next, best, best_fit, used, gen, fits, taken,
                   finished, wk, result, prev, h>>

NextTournament == CallTournament

SpecTournament == InitTournament /\ [][NextTournament]_vars

(***************************************************************************)
(* Claims                                                                  *)
(***************************************************************************)
Quiescent == \A w \in Workers : wk[w].st = "idle"

\* C1: with any number of concurrent evaluators on one LossCounter, used()
\* never exceeds the limit.
C1_UsedWithinLimit ==
    cfg.driver = "evolve_on" => used <= cfg.eval_budget

\* C2: when T calls of penalized_mse have all finished, used() equals
\* min(limit, T).
C2_UsedIsMinLimitAttempts ==
    (cfg.driver = "evolve_on" /\ Quiescent)
        => used = Min(cfg.eval_budget, h.attempts)

\* C3: a penalized_mse call that begins once used() has reached the limit
\* never passes can(), so it claims no budget, evaluates nothing and leaves
\* the counter as it found it; it returns None.
C3_ExhaustedCallsDoNothing ==
    /\ h.lateTicks = 0
    /\ \A w \in Workers : wk[w].late => wk[w].st = "can"

\* C3 witness: a call that began after exhaustion has returned None
C3_Witness ==
    /\ h.lateNones >= 1
    /\ used >= cfg.eval_budget
    /\ cfg.eval_budget >= 1

\* C4: used() equals the number of penalized_mse calls that returned a
\* fitness value: each of them added exactly one, each None added nothing.
C4_UsedCountsClaims ==
    /\ used = h.somes
    /\ h.somes <= h.attempts

\* C4 witness: two evaluators hold a claim at once and calls of both kinds
\* have returned
C4_Witness ==
    /\ cfg.threads >= 2
    /\ h.somes >= 2
    /\ h.attempts > h.somes
    /\ \E w \in Workers : wk[w].st = "tick"

\* C5: every run of the driver with pop_size >= 1 terminates; evolve_on has
\* then exhausted its budget and evolve_symbolic has reached its generation
\* limit.
C5_Terminates ==
    /\ (cfg.pop_size >= 1) ~> (pc = "done")
    /\ [](pc = "done" =>
            IF cfg.driver = "evolve_on"
            THEN used >= cfg.eval_budget
            ELSE gen = cfg.generations)

\* C5 witness: evolve_on has returned after at least two evaluation passes
\* run by two evaluators
C5_Witness ==
    /\ pc = "done"
    /\ cfg.driver = "evolve_on"
    /\ cfg.threads >= 2
    /\ cfg.pop_size >= 2
    /\ h.passes >= 2

\* C6: with the budget equal to the population size (both >= 1), evolve_on
\* runs one evaluation pass over the initial generation, builds no next
\* generation, and returns used() equal to the budget.
C6_BudgetEqualsPopSize ==
    (cfg.driver = "evolve_on" /\ cfg.eval_budget = cfg.pop_size)
        => /\ h.passes <= 1
           /\ h.builds = 0
           /\ h.children = 0
           /\ pc = "done" => /\ h.passes = 1
                             /\ h.attempts = cfg.pop_size
                             /\ result.used = cfg.eval_budget

\* C6 witness: such a run has returned, evaluated by two threads
C6_Witness ==
    /\ pc = "done"
    /\ cfg.driver = "evolve_on"
    /\ cfg.eval_budget = cfg.pop_size
    /\ cfg.pop_size >= 2
    /\ cfg.threads >= 2

\* C7: two runs of evolve_on with the same seed, budget, population size
\* and grid return the same best expression and the same final fitness,
\* whatever the number of evaluator threads and their interleaving.
C7_SameResult ==
    (cfg.driver = "evolve_on" /\ pc = "done" /\ prev.done)
        => (result.expr = prev.expr /\ result.mse = prev.mse)

\* C8: whenever a next generation is built, its slot 0 is a copy of the
\* tracked best, which is the run's best: no evaluation of the whole run
\* gave a lower fitness, and its fitness was measured on that very tree.
\* The copy is still in slot 0 when the generation becomes the population.
C8_EliteSlot ==
    /\ pc \in {"repro", "srepro"} =>
          /\ Len(next) >= 1
          /\ next[1] = best
          /\ \A s \in h.seen : ~Lt(s[2], best_fit)
          /\ best_fit # PInf => <<best, best_fit>> \in h.seen
    /\ (pc \in {"while", "sfor"} /\ h.builds >= 1) => pop[1] = best

\* C8 witness: evolve_symbolic builds a later generation whose elite comes
\* from an earlier one: every fitness of the current generation is worse
C8_Witness ==
    /\ pc = "srepro"
    /\ h.builds >= 2
    /\ cfg.pop_size >= 2
    /\ \A i \in 1..Len(fits) : Lt(best_fit, fits[i])
    /\ next[1] = best

\* C9: best_fit never increases during a run (and is never NaN).
C9_BestFitMonotone ==
    [][pc # "start" => (best_fit' # NaN /\ ~Lt(best_fit, best_fit'))]_vars

\* C9 witness: best_fit has been lowered in a generation after the first
C9_Witness ==
    /\ h.improvedLate >= 1
    /\ h.improved >= 2
    /\ best_fit < PInf

\* C10: after initialization with pop_size >= 1 the population always has
\* exactly pop_size individuals.
C10_PopLength ==
    pc \notin {"start", "panic"} => Len(pop) = cfg.pop_size

\* C10 witness: a generation built by reproduction is being evaluated
C10_Witness ==
    /\ pc \in {"eval", "smse"}
    /\ h.builds >= 1
    /\ h.children >= 1
    /\ Len(pop) = cfg.pop_size
    /\ cfg.pop_size >= 2

\* C11: a configuration with zero population size or zero evaluation budget
\* is rejected before any search work: no random draw is made, no population
\* is generated, nothing is evaluated, the driver neither panics nor returns
\* a search result.
ZeroConfig ==
    \/ cfg.pop_size = 0
    \/ cfg.driver = "evolve_on" /\ cfg.eval_budget = 0

C11_ZeroConfigRejected ==
    ZeroConfig => /\ pop = <<>>
                  /\ rng = 0
                  /\ h.passes = 0
                  /\ pc # "panic"
                  /\ ~result.done

\* the initial population of the run
initial_pop == init_pop(seed_from_u64(cfg.seed), cfg.pop_size, <<>>).v

\* the budget runs out before the first generation's evaluation completes
ShortBudget ==
    /\ cfg.driver = "evolve_on"
    /\ cfg.pop_size >= 1
    /\ cfg.eval_budget < cfg.pop_size

\* C12 as stated: with the budget below the population size evolve_on
\* returns the initial population's first individual.
C12_ReturnsFirstIndividual ==
    (ShortBudget /\ pc = "done") => result.expr = initial_pop[1]

\* C12 amended: with the budget below the population size evolve_on runs
\* at most one evaluation pass and builds no generation; it returns the
\* initial population's first individual when no evaluated individual has
\* a fitness below infinity (so whenever the budget is 0), and otherwise the
\* evaluated individual of lowest fitness, the earliest on ties.
C12_ReturnsBestEvaluated ==
    (ShortBudget /\ pc = "done") =>
        /\ h.passes <= 1
        /\ h.builds = 0
        /\ IF \A i \in DOMAIN fits : ~Lt(fits[i], PInf)
           THEN result.expr = initial_pop[1]
           ELSE \E i \in DOMAIN fits :
                   /\ result.expr = initial_pop[i]
                   /\ \A j \in DOMAIN fits :
                         /\ ~Lt(fits[j], fits[i])
                         /\ j < i => Lt(fits[i], fits[j])

\* C12 witness: a run with a short budget has returned an individual other
\* than the first
C12_Witness ==
    /\ ShortBudget
    /\ pc = "done"
    /\ cfg.eval_budget >= 1
    /\ result.expr # initial_pop[1]

\* C13: the step that returns is the final re-scoring pass.  It runs once
\* the generational loop has ended, scores the tracked best individual only
\* (the whole grid in evolve_on, FinalN fresh samples in evolve_symbolic),
\* returns that score and that individual, and touches neither the
\* population, the per-generation estimates nor the budget counter.
C13_FinalRescoring ==
    [][(pc # "done" /\ pc' = "done") =>
          /\ result'.expr = best
          /\ IF cfg.driver = "evolve_on"
             THEN /\ pc = "final"
                  /\ ~can(used, cfg.eval_budget)
                  /\ result'.mse = mean(sum_sq(best, xs_grid, 1), Len(xs_grid))
             ELSE /\ pc = "sfinal"
                  /\ gen = cfg.generations
                  /\ result'.mse = mean(mse_sum(best, rng, FinalN, 0).v, FinalN)
          /\ best' = best
          /\ best_fit' = best_fit
          /\ pop' = pop
          /\ fits' = fits
          /\ used' = used]_vars

\* C13 witness: evolve_on has returned after two evaluation passes, and the
\* returned fitness is not the tracked per-generation estimate
C13_Witness ==
    /\ pc = "done"
    /\ cfg.driver = "evolve_on"
    /\ h.passes >= 2
    /\ is_finite(best_fit)
    /\ result.mse # best_fit

\* C14: two runs of a driver on one thread (evolve_symbolic, or evolve_on
\* with one evaluator) with the same seed and configuration leave the
\* generator in the same state, having made the same draws, and return the
\* same best expression and the same fitness.
C14_SingleThreadDeterminism ==
    (pc = "done" /\ prev.done /\ prev.threads = 1 /\ cfg.threads = 1)
        => /\ result.expr = prev.expr
           /\ result.mse = prev.mse
           /\ result.used = prev.used
           /\ rng = prev.rng

\* C14 witness: the second of two single-threaded runs of evolve_on has
\* returned; the budget ran out inside an evaluation pass
C14_Witness ==
    /\ pc = "done"
    /\ prev.done
    /\ prev.threads = 1
    /\ cfg.threads = 1
    /\ cfg.driver = "evolve_on"
    /\ cfg.pop_size >= 2
    /\ h.attempts > h.somes
    /\ h.somes >= 1

\* C15: for every expression, node_count is 1 plus the node counts of all
\* its child subexpressions, whatever the node kind.  Stated of every tree
\* of the population and of every subexpression of it.
C15_NodeCountCountsAll ==
    cfg.driver = "evolve_on" =>
        \A i \in 1..Len(pop) : \A t \in Subtrees(pop[i]) :
            node_count(t) =
                1 + (IF Len(children(t)) >= 1 THEN node_count(children(t)[1]) ELSE 0)
                  + (IF Len(children(t)) >= 2 THEN node_count(children(t)[2]) ELSE 0)

\* C16: no fitness the engine computes is NaN, whatever the tree evaluates
\* to on the sample points: neither what mse returns, nor what penalized_mse
\* returns, nor the final score of evolve_on.
C16_FitnessNeverNaN ==
    /\ probe.st = "mse_done" => ~is_nan(probe.fit)
    /\ probe.st = "penalized_mse_done" =>
          ~is_nan(probe.fit) /\ ~is_nan(probe.clean)

\* a Pow node of tree e whose base is negative and finite at x and whose
\* exponent is not an integer
NegativeBasePow(t, x) ==
    /\ t.op = "Pow"
    /\ fract_nonzero(t.p)
    /\ is_finite(eval(t.a, x))
    /\ eval(t.a, x) < 0

\* C17: a Pow node whose base evaluates to a negative finite value and whose
\* exponent is not an integer evaluates to |base|^p, which is not NaN.
\* Stated of every Pow node of every tree of the population of evolve_on,
\* at every point of the sample grid.
C17_PowNegativeBase ==
    cfg.driver = "evolve_on" =>
        \A i \in 1..Len(pop) : \A t \in Subtrees(pop[i]) :
            \A k \in 1..Len(xs_grid) :
                NegativeBasePow(t, xs_grid[k]) =>
                    /\ eval(t, xs_grid[k]) = powf(-eval(t.a, xs_grid[k]), t.p)
                    /\ ~is_nan(eval(t, xs_grid[k]))

\* C17 witness: the population holds such a node
C17_Witness ==
    /\ cfg.driver = "evolve_on"
    /\ \E i \in 1..Len(pop) : \E t \in Subtrees(pop[i]) :
          \E k \in 1..Len(xs_grid) :
              /\ NegativeBasePow(t, xs_grid[k])
              /\ eval(t.a, xs_grid[k]) < -1
              /\ eval(t, xs_grid[k]) > 0

\* 1.0 in the units of a curiosity
One == AlphaInv

\* C18 as stated: curiosity_from_mse(0) = 1, and for mse >= 0 the result
\* lies in (0, 1] and is strictly decreasing in mse.
C18_StrictlyDecreasing ==
    probe.st = "curiosity_done" =>
        /\ probe.mse1 = 0 => probe.c1 = One
        /\ 0 < probe.c1 /\ probe.c1 <= One
        /\ probe.mse1 < probe.mse2 => probe.c1 > probe.c2

\* C18 amended: curiosity_from_mse(0) = 1, and for finite mse >= 0 the
\* result lies in (0, 1] and is non-increasing in mse: mse1 < mse2 implies
\* curiosity_from_mse(mse1) >= curiosity_from_mse(mse2).
C18_NonIncreasing ==
    probe.st = "curiosity_done" =>
        /\ probe.mse1 = 0 => probe.c1 = One
        /\ 0 < probe.c1 /\ probe.c1 <= One
        /\ probe.mse1 < probe.mse2 => probe.c1 >= probe.c2

\* C18 witness: the two calls have returned, the first for mse 0 and the
\* second for a larger mse with a smaller curiosity
C18_Witness ==
    /\ probe.st = "curiosity_done"
    /\ probe.mse1 = 0
    /\ probe.mse1 < probe.mse2
    /\ probe.c1 = One
    /\ probe.c2 < probe.c1

\* C19: the tracked best is replaced only by an individual of strictly
\* lower fitness: a step that assigns best or best_fit (h.improved counts
\* the assignments) leaves best_fit strictly below its value before.
C19_TiesKeepBest ==
    [][(pc # "start" /\ (h'.improved # h.improved \/ best' # best
                          \/ best_fit' # best_fit))
          => Lt(best_fit', best_fit)]_vars

\* C19 witness: an evaluation pass of evolve_on has been collected in which
\* a tree other than the tracked best scored exactly best_fit, and the
\* tracked best was kept
C19_Witness ==
    /\ cfg.driver = "evolve_on"
    /\ pc \in {"repro", "final"}
    /\ is_finite(best_fit)
    /\ \E i \in DOMAIN fits : fits[i] = best_fit /\ pop[i] # best

\* the driver is at one of its own counter.can() tests (lines 152, 159,
\* 163), or past the loop, with the budget exhausted
DriverSeesExhausted ==
    /\ cfg.driver = "evolve_on"
    /\ ~can(used, cfg.eval_budget)
    /\ \/ pc \in {"while", "repro", "final"}
       \/ pc = "eval" /\ finished = 1..Len(pop)

\* C20: once evolve_on has observed the budget exhausted it begins no
\* evaluation pass, builds no generation, produces no offspring and claims
\* no budget.  Seen after an evaluation pass, exhaustion leads straight to
\* the exit of the loop with no next generation built; seen in the
\* reproduction loop, it ends that loop with the offspring completed so far
\* and the outer loop exits at its next test; past the loop the tracked
\* best is returned.
C20_ExhaustionStopsSearch ==
    [][DriverSeesExhausted =>
          /\ h'.passes = h.passes
          /\ h'.builds = h.builds
          /\ h'.children = h.children
          /\ h'.somes = h.somes
          /\ used' = used
          /\ pc = "eval" => pc' = "final" /\ next' = next
          /\ pc = "while" => pc' = "final" /\ best' = best
          /\ pc = "repro" => pc' = "while" /\ pop' = next /\ best' = best
          /\ pc = "final" => pc' = "done" /\ result'.expr = best]_vars

\* C20 witness: exhaustion was seen after the evaluation pass of a later
\* generation and the loop has been left
C20_Witness ==
    /\ cfg.driver = "evolve_on"
    /\ pc = "final"
    /\ h.passes >= 2
    /\ h.builds >= 1
    /\ h.builds = h.passes - 1
    /\ h.children >= 1

\* the greatest height the depth control could account for: a tree of the
\* initial depth with one injected subtree of the greatest depth mutate allows
HeightBound == 2 * DepthLimit

\* C21: the height of every tree stays within a fixed bound however many
\* generations of mutate and crossover are applied to it.
C21_HeightBounded ==
    probe.st \in {"evolve_on", "evolve_symbolic"} => Height(probe.e) <= HeightBound

\* C22: rand_expr(rng, d) returns, and what it returns is a tree of height
\* at most d; for d = 0 a single leaf, X or Const.
C22_RandExprHeight ==
    probe.st \in {"rand_expr_done", "rand_expr_sci_done"} =>
        /\ Height(probe.e) <= probe.d
        /\ probe.d = 0 => probe.e.op \in {"X", "Const"}

\* C22 witness: a call of rand_expr with the depth of the initial
\* population has returned a tree of exactly that height
C22_Witness ==
    /\ probe.st = "rand_expr_done"
    /\ probe.d = DepthLimit
    /\ Height(probe.e) = probe.d

\* C23: when a call of mutate at recursion depth d replaces its node, the
\* replacement has height at most min(d, 3); at depth 0 it is a single leaf.
C23_ReplacementDepth ==
    (probe.st \in {"mutate_done", "mutate_sci_done"} /\ probe.replaced) =>
        /\ Height(probe.out) <= Min(probe.d, DepthLimit)
        /\ probe.d = 0 => probe.out.op \in {"X", "Const"}

\* C23 witness: replacements were taken at the root, giving a leaf in place
\* of a tree that was none, and (second disjunct) below the cap depth
C23_Witness ==
    /\ probe.st = "mutate_done"
    /\ probe.replaced
    /\ probe.d = 0
    /\ Height(probe.e) >= 1
    /\ probe.out.op \in {"X", "Const"}

\* out is p with at most one subtree, on one root-to-node path that passes
\* only through Add, Mul, Sin, Cos and Exp nodes, replaced by d
RECURSIVE OneReplaced(_, _, _)
OneReplaced(p, d, out) ==
    \/ out = p
    \/ out = d
    \/ /\ p.op \in {"Sin", "Cos", "Exp"}
       /\ out.op = p.op
       /\ OneReplaced(p.a, d, out.a)
    \/ /\ p.op \in {"Add", "Mul"}
       /\ out.op = p.op
       /\ \/ out.b = p.b /\ OneReplaced(p.a, d, out.a)
          \/ out.a = p.a /\ OneReplaced(p.b, d, out.b)

\* C24: the result of crossover is the parent with at most one subtree
\* replaced by an exact copy of the donor, one child of a binary node at most
\* being descended into; without the whole-node replacement a Const, X, Pow
\* or Scale parent is returned unchanged.
C24_OneSubtreeFromDonor ==
    probe.st = "crossover_done" =>
        /\ OneReplaced(probe.parent, probe.donor, probe.out)
        /\ (~probe.replaced /\ probe.parent.op \in {"Const", "X", "Pow", "Scale"})
               => probe.out = probe.parent

\* C24 witness: a donor copy was placed strictly inside a binary parent
C24_Witness ==
    /\ probe.st = "crossover_done"
    /\ ~probe.replaced
    /\ probe.parent.op \in {"Add", "Mul"}
    /\ probe.out # probe.parent
    /\ probe.out # probe.donor


\* C25: an offspring that is non-finite at x = 0 or at x = 1 is replaced by a
\* tree freshly generated by rand_expr(rng, 2); an offspring finite at both
\* points is pushed unchanged.
C25_Reanimation ==
    probe.st = "offspring_done" =>
        IF is_finite(eval(probe.cand, 0)) /\ is_finite(eval(probe.cand, 1))
        THEN probe.out = probe.cand
        ELSE probe.out = rand_expr(probe.rc, 2).v

\* C25 witness: a child finite at x = 0 and not at x = 1 was replaced
C25_Witness ==
    /\ probe.st = "offspring_done"
    /\ is_finite(eval(probe.cand, 0))
    /\ ~is_finite(eval(probe.cand, 1))
    /\ probe.out # probe.cand


\* the indices gen_range hands out in k successive draws from 0..n-1
RECURSIVE Draws(_, _, _)
Draws(r, n, k) ==
    IF k = 0 THEN <<>>
    ELSE <<gen_range(r, 0, n).v + 1>> \o Draws(gen_range(r, 0, n).r, n, k - 1)

\* position of the first drawn member whose fitness equals that of member i
FirstWithFitness(ds, fs, i) ==
    CHOOSE j \in 1..Len(ds) :
        /\ fs[ds[j]] = fs[i]
        /\ \A l \in 1..(j - 1) : fs[ds[l]] # fs[i]

\* C26: tournament returns one of the k members it drew, none of the drawn
\* members has a lower fitness, and among the drawn members of the same
\* fitness it is the one drawn first.
C26_ReturnsLowestDrawn ==
    probe.st = "tournament_done" =>
        \E ds \in {Draws(seed_from_u64(probe.seed), MaxPop, TournamentK)} :
            /\ \E j \in 1..Len(ds) : ds[j] = probe.out
            /\ \A j \in 1..Len(ds) :
                  ~is_nan(probe.fits[ds[j]]) =>
                      /\ ~is_nan(probe.fits[probe.out])
                      /\ ~Lt(probe.fits[ds[j]], probe.fits[probe.out])
            /\ ds[FirstWithFitness(ds, probe.fits, probe.out)] = probe.out

\* the same on fitness vectors without NaN
TournamentOnNumbers ==
    (\A i \in 1..MaxPop : ~is_nan(probe.fits[i])) => C26_ReturnsLowestDrawn


\* the records of the file: its lines after the header
DiscoveryRows == SubSeq(csv, 2, Len(csv))

\* C27: a completed evolve_symbolic search has handed exactly one discovery
\* record to persistence: the file, absent before the search, holds one row,
\* with the rendered formula, the mse and the curiosity 1/(1+mse) of the
\* result.
C27_OneRecordPerSearch ==
    (cfg.driver = "evolve_symbolic" /\ pc = "done") =>
        /\ Len(DiscoveryRows) = 1
        /\ \E row \in {DiscoveryRows[1]} :
              /\ row[2] = Debug(result.expr)
              /\ row[3] = fmt6(result.mse)
              /\ row[4] = fmt6(curiosity_from_mse(result.mse))


\* the two rows of one search: the row of save_discovery, then that of
\* log_discovery
TwoRowsPerSearch ==
    (cfg.driver = "evolve_symbolic" /\ pc = "done") =>
        /\ Len(DiscoveryRows) = 2
        /\ DiscoveryRows[1][2] = Debug(result.expr)
        /\ DiscoveryRows[2][1] = Debug(result.expr)
        /\ DiscoveryRows[1][3] = fmt6(result.mse)
        /\ DiscoveryRows[2][2] = fmt6(result.mse)


\* the evaluators that have passed can() and not yet reached tick()
InFlight == {w \in Workers : wk[w].st = "tick"}

\* C28: with N evaluator threads sharing the counter, used() never exceeds
\* limit + N - 1, and neither does used() plus the claims still in flight.
C28_OvershootBound ==
    cfg.driver = "evolve_on" =>
        /\ used <= cfg.eval_budget + cfg.threads - 1
        /\ used + Cardinality(InFlight) <= cfg.eval_budget + cfg.threads - 1

\* C28 witness: the bound is attained with more than one thread
C28_Witness ==
    /\ cfg.driver = "evolve_on"
    /\ cfg.threads >= 2
    /\ cfg.eval_budget >= 1
    /\ used = cfg.eval_budget + cfg.threads - 1


\* the first individual of the initial population of the run
InitialFirst ==
    IF cfg.driver = "evolve_on" THEN initial_pop[1]
    ELSE init_pop_sci(seed_from_u64(cfg.seed), cfg.pop_size, <<>>).v[1]

\* best and best_fit agree with the fitness values computed so far
BestIsEvaluatedMinimum ==
    IF is_finite(best_fit)
    THEN /\ <<best, best_fit>> \in h.seen
         /\ \A s \in h.seen : ~Lt(s[2], best_fit)
    ELSE /\ best_fit = PInf
         /\ best = InitialFirst

\* C29 as stated: at every point of a run, if best_fit is finite then best is
\* a copy of an individual evaluated with fitness exactly best_fit and
\* best_fit is the minimum of all fitness values computed so far; while
\* best_fit is infinite, best is the initial population's first individual.
C29_BestAtEveryPoint ==
    pc \notin {"start", "panic"} => BestIsEvaluatedMinimum

\* C29 amended: the same at every point outside the parallel evaluation pass
\* of evolve_on, whose fitness values reach best and best_fit only once the
\* pass is complete.
C29_BestBetweenPasses ==
    pc \notin {"start", "panic", "eval"} => BestIsEvaluatedMinimum

\* C29 witness: the best was replaced in a generation after the first and
\* the next generation is being built
C29_Witness ==
    /\ pc \in {"repro", "srepro"}
    /\ h.improvedLate >= 1
    /\ is_finite(best_fit)
    /\ best # InitialFirst


\* C30: in evolve_on no step of the reproduction phase changes the budget
\* counter, the phase ends only with next filled to the population size and
\* budget still left, and no reproduction has ever stopped short.
C30_ReproductionClaimsNoBudget ==
    [][(cfg.driver = "evolve_on" /\ pc = "repro") =>
          /\ used' = used
          /\ h'.somes = h.somes
          /\ h'.early = 0
          /\ pc' # "repro" => /\ Len(next) = cfg.pop_size
                              /\ pop' = next
                              /\ can(used, cfg.eval_budget)]_vars

\* C30 witness: two reproduction phases have completed, each having pushed
\* pop_size - 1 offspring
C30_Witness ==
    /\ cfg.driver = "evolve_on"
    /\ pc = "while"
    /\ cfg.pop_size >= 2
    /\ h.builds >= 2
    /\ h.children = h.builds * (cfg.pop_size - 1)
    /\ h.early = 0
====
